---------------------------- MODULE Spec2Model ----------------------------
(***************************************************************************)
(* The package build descriptor (setup.py) and the test module             *)
(* (tests/main_test.py) of test_databricks_asset_bundles.                  *)
(*                                                                         *)
(* Strings whose content matters (versions, timestamps) are sequences of   *)
(* character codes, so that formatting, concatenation and Python's         *)
(* code-point string comparison are computed rather than assumed.          *)
(***************************************************************************)
EXTENDS Integers, Sequences, FiniteSets, TLC

(***************************************************************************)
(* Bounds of the model.                                                    *)
(***************************************************************************)
\* number of invocations of the build descriptor in one behaviour
MaxBuilds == 2

(***************************************************************************)
(* Characters.                                                             *)
(***************************************************************************)
\* "+" in  __version__ + "+" + local_version
Plus == 43
\* "." in the format "%Y%m%d.%H%M%S"
Dot == 46
\* "0": the digit d is the character Zero + d
Zero == 48

Digit(d) == Zero + d

IsDigit(c) == c \in Zero .. (Zero + 9)

\* Python's str comparison a < b: by code point, a proper prefix is smaller.
RECURSIVE StrLess(_, _)
StrLess(a, b) ==
    IF b = << >> THEN FALSE
    ELSE IF a = << >> THEN TRUE
    ELSE IF Head(a) # Head(b) THEN Head(a) < Head(b)
    ELSE StrLess(Tail(a), Tail(b))

(***************************************************************************)
(* datetime.datetime.utcnow(): the clock reading, a count of whole days    *)
(* since 1970-01-01, the second of that day and the microsecond, broken    *)
(* down into the fields of the proleptic Gregorian calendar.               *)
(***************************************************************************)
civil_from_days(days) ==
    LET z   == days + 719468
        era == z \div 146097
        doe == z - era * 146097
        yoe == (doe - doe \div 1460 + doe \div 36524 - doe \div 146096) \div 365
        doy == doe - (365 * yoe + yoe \div 4 - yoe \div 100)
        mp  == (5 * doy + 2) \div 153
        d   == doy - (153 * mp + 2) \div 5 + 1
        m   == IF mp < 10 THEN mp + 3 ELSE mp - 9
        y   == yoe + era * 400 + (IF m <= 2 THEN 1 ELSE 0)
    IN  [year |-> y, month |-> m, day |-> d]

utcnow(t) ==
    LET ymd == civil_from_days(t.day)
    IN  [year   |-> ymd.year,
         month  |-> ymd.month,
         day    |-> ymd.day,
         hour   |-> t.sod \div 3600,
         minute |-> (t.sod % 3600) \div 60,
         second |-> t.sod % 60,
         microsecond |-> t.us]

(***************************************************************************)
(* strftime("%Y%m%d.%H%M%S")                                               *)
(***************************************************************************)
\* the decimal digits of n >= 0
RECURSIVE Dec(_)
Dec(n) == IF n < 10 THEN << Digit(n) >> ELSE Dec(n \div 10) \o << Digit(n % 10) >>

\* %Y: the year in decimal
FmtYear(y) == Dec(y)

\* Fmt2 without the zero padding
Fmt2NoPad(n) == Dec(n)

\* %m %d %H %M %S: two digits, zero padded
Fmt2(n) == << Digit(n \div 10), Digit(n % 10) >>

\* strftime with the fields in the order day, month, year
strftimeDayFirst(dt) ==
    Fmt2(dt.day) \o Fmt2(dt.month) \o FmtYear(dt.year) \o << Dot >>
        \o Fmt2(dt.hour) \o Fmt2(dt.minute) \o Fmt2(dt.second)

\* strftime with the microsecond appended, as "%Y%m%d.%H%M%S%f" would
strftimeMicros(dt) ==
    FmtYear(dt.year) \o Fmt2(dt.month) \o Fmt2(dt.day) \o << Dot >>
        \o Fmt2(dt.hour) \o Fmt2(dt.minute) \o Fmt2(dt.second)
        \o Dec(dt.microsecond)

strftime(dt) ==
    FmtYear(dt.year) \o Fmt2(dt.month) \o Fmt2(dt.day) \o << Dot >>
        \o Fmt2(dt.hour) \o Fmt2(dt.minute) \o Fmt2(dt.second)

\* FullVersion without the separator
FullVersionNoPlus(base, local) == base \o local

\* version=test_databricks_asset_bundles.__version__ + "+" + local_version
FullVersion(base, local) == base \o << Plus >> \o local


(***************************************************************************)
(* The environment of a build: the wall clock, the package's source and    *)
(* the directory tree.                                                     *)
(***************************************************************************)
\* Clock readings [day, sod, us] a behaviour of Spec moves through: the
\* epoch, century and leap-day boundaries, a change of the number of hour
\* digits, readings within one second, a month with two digits, and the
\* last second datetime can represent.
Readings ==
    { [day |-> 0,       sod |-> 0,     us |-> 0],
      [day |-> 10956,   sod |-> 86399, us |-> 999999],
      [day |-> 10957,   sod |-> 0,     us |-> 0],
      [day |-> 19782,   sod |-> 35999, us |-> 0],
      [day |-> 19782,   sod |-> 36000, us |-> 0],
      [day |-> 19787,   sod |-> 29350, us |-> 0],
      [day |-> 19787,   sod |-> 29350, us |-> 999999],
      [day |-> 19787,   sod |-> 29351, us |-> 0],
      [day |-> 19996,   sod |-> 86399, us |-> 0],
      [day |-> 19997,   sod |-> 0,     us |-> 0],
      [day |-> 2932896, sod |-> 86399, us |-> 999999] }

\* no reading taken yet
NoReading == [day |-> -1, sod |-> 0, us |-> 0]

\* reading b is later than reading a
Later(a, b) ==
    \/ b.day > a.day
    \/ b.day = a.day /\ b.sod > a.sod
    \/ b.day = a.day /\ b.sod = a.sod /\ b.us > a.us

\* b was read at least one second after a
SecondApart(a, b) ==
    LET ds == IF b.day = a.day THEN b.sod - a.sod
              ELSE IF b.day = a.day + 1 THEN 86400 + b.sod - a.sod
              ELSE IF b.day > a.day THEN 2 ELSE -1
    IN  ds >= 2 \/ (ds = 1 /\ b.us >= a.us)

\* a and b fall in the same UTC second
SameSecond(a, b) == a.day = b.day /\ a.sod = b.sod

\* __version__ of the package: "0.0.1" and "0.0.10"
BaseVersions ==
    { << Zero, Dot, Zero, Dot, Zero + 1 >>,
      << Zero, Dot, Zero, Dot, Zero + 1, Zero >> }

\* Directories of the project that may hold an __init__.py, as paths from
\* the project root.
SrcDir == << "src" >>
RootDir == << >>
PackageDirs ==
    { << "src", "test_databricks_asset_bundles" >>,
      << "src", "test_databricks_asset_bundles", "utils" >>,
      << "src", "build.tmp" >>,
      << "tests" >> }
AllDirs == PackageDirs \cup { SrcDir }

\* directory names that contain a "."
DottedNames == { "build.tmp" }

IsPrefix(p, d) == Len(p) <= Len(d) /\ SubSeq(d, 1, Len(p)) = p

Children(d) == { c \in AllDirs : Len(c) = Len(d) + 1 /\ IsPrefix(d, c) }

\* os.path.relpath(full_path, where), as the package's dotted name
RelPath(d, where) == SubSeq(d, Len(where) + 1, Len(d))

(***************************************************************************)
(* setuptools.find_packages(where): walk the tree below where; a directory *)
(* whose name has a dot or that has no __init__.py is skipped together     *)
(* with everything below it, any other directory is a package and is       *)
(* searched in turn.                                                       *)
(***************************************************************************)
RECURSIVE WalkPackages(_, _, _)
WalkPackages(dir, where, markers) ==
    UNION { IF d[Len(d)] \in DottedNames \/ d \notin markers
            THEN {}
            ELSE { RelPath(d, where) } \cup WalkPackages(d, where, markers)
          : d \in Children(dir) }

find_packages(where, markers) == WalkPackages(where, where, markers)


(***************************************************************************)
(* State.                                                                  *)
(***************************************************************************)
VARIABLES
    now,            \* the wall clock (UTC)
    diskVersion,    \* __version__ in the package's source
    markers,        \* the directories that hold an __init__.py
    sys_path,       \* sys.path of the running interpreter
    sys_modules,    \* sys.modules: the imported packages, with their __version__
    pc,             \* position of the build descriptor
    local_version,  \* the module global local_version
    readAt,         \* the clock reading utcnow() returned
    version,        \* the value of the version= argument
    packages,       \* the value of the packages= argument
    record,         \* the metadata records setup() has received in this invocation
    raised,         \* what the packaging tool raised
    outcome,        \* how the invocation ended
    steps,          \* the statements this invocation has executed, in order
    nReads,         \* clock readings taken by this invocation
    nBuilds,        \* invocations started
    runs,           \* runs of the script started in the current interpreter
    builds,         \* every call of setup() so far: base version, reading, version
    env,            \* os.environ of the test session: CI and GITHUB_ACTIONS
    tpc,            \* position of the test session
    skipMain,       \* the skipif condition of test_main
    taxisCount,     \* get_taxis(get_spark()).count()
    results         \* outcome of each test

buildVars == << sys_path, sys_modules, pc, local_version, readAt, version, packages,
                record, raised, outcome, steps, nReads, nBuilds, runs, builds >>
envVars == << now, diskVersion, markers >>
testVars == << env, tpc, skipMain, taxisCount, results >>
vars == << now, diskVersion, markers, sys_path, sys_modules, pc, local_version,
           readAt, version, packages, record, raised, outcome, steps, nReads,
           nBuilds, runs, builds, env, tpc, skipMain, taxisCount, results >>

PackageName == "test_databricks_asset_bundles"

\* sys.path of a fresh interpreter running the script: the script's directory
InitialSysPath == << "" >>

\* errors the packaging tool may raise
SetupErrors == { "SystemExit", "DistutilsError" }

\* the keyword arguments of setup(...)
Metadata(v, pkgs) ==
    [ name             |-> PackageName,
      version          |-> v,
      url              |-> "https://databricks.com",
      author           |-> "daniel.iyiola@godevsuite072.onmicrosoft.com",
      description      |-> "wheel file based on test_databricks_asset_bundles/src",
      packages         |-> pkgs,
      package_dir      |-> "src",
      entry_points     |-> << "main=test_databricks_asset_bundles.main:main" >>,
      install_requires |-> << "setuptools" >> ]

\* the test session has not started: the state of its variables in Spec
TestOff ==
    /\ env = [CI |-> "<unset>", GITHUB_ACTIONS |-> "<unset>"]
    /\ tpc = "off"
    /\ skipMain = FALSE
    /\ taxisCount = -1
    /\ results = [test_main |-> "notrun", test_placeholder |-> "notrun"]

\* a fresh interpreter, the build descriptor at position p
BuildAt(p) ==
    /\ sys_path = InitialSysPath
    /\ sys_modules = {}
    /\ pc = p
    /\ local_version = << >>
    /\ readAt = NoReading
    /\ version = << >>
    /\ packages = {}
    /\ record = << >>
    /\ raised = "none"
    /\ outcome = "none"
    /\ steps = << >>
    /\ nReads = 0
    /\ nBuilds = 1
    /\ runs = 1
    /\ builds = << >>

\* a fresh interpreter about to execute setup.py
BuildStart == BuildAt("start")

\* the usual layouts of the tree: the package alone, and every directory a package
Layouts == { { << "src", "test_databricks_asset_bundles" >> }, PackageDirs }

Init ==
    /\ now \in Readings
    /\ diskVersion \in BaseVersions
    /\ markers \in Layouts
    /\ BuildStart
    /\ TestOff

\* Clock readings of whole seconds for one build: every day of the leap year
\* 2024, the epoch, 1999-12-31, 2000-01-01, 2000-02-29, 2100-02-28,
\* 2100-03-01 and 9999-12-31, at hours, minutes and seconds of one and two
\* digits.
FmtDays == (19723 .. 20088) \cup { 0, 10956, 10957, 11016, 47540, 47541, 2932896 }
FmtSecs == { h * 3600 + m * 60 + s : h \in { 0, 8, 9, 10, 23 },
                                     m \in { 0, 9, 59 }, s \in { 0, 10, 59 } }
FmtReadings == [ day : FmtDays, sod : FmtSecs, us : { 0 } ]

\* one build, at any of the readings above
InitFmt ==
    /\ now \in FmtReadings
    /\ diskVersion \in BaseVersions
    /\ markers = PackageDirs
    /\ BuildStart
    /\ TestOff

\* one build, over any layout of the tree
InitFs ==
    /\ now = [day |-> 19787, sod |-> 29350, us |-> 0]
    /\ diskVersion \in BaseVersions
    /\ markers \in SUBSET PackageDirs
    /\ BuildStart
    /\ TestOff

(***************************************************************************)
(* The environment's steps.                                                *)
(***************************************************************************)
\* the wall clock advances
Tick ==
    /\ pc # "off"
    /\ \E t \in Readings : Later(now, t) /\ now' = t
    /\ UNCHANGED << diskVersion, markers, buildVars, testVars >>

\* the developer changes __version__ between two builds
BumpVersion ==
    /\ pc = "done"
    /\ nBuilds < MaxBuilds
    /\ \E v \in BaseVersions : v # diskVersion /\ diskVersion' = v
    /\ UNCHANGED << now, markers, buildVars, testVars >>

(***************************************************************************)
(* setup.py, statement by statement.                                       *)
(***************************************************************************)
\* SysPathAppend that leaves sys.path alone when "./src" is already on it
SysPathAppendOnce ==
    /\ pc = "start"
    /\ sys_path' = IF \E i \in DOMAIN sys_path : sys_path[i] = "./src"
                   THEN sys_path ELSE Append(sys_path, "./src")
    /\ steps' = Append(steps, "sys.path.append")
    /\ pc' = "appended"
    /\ UNCHANGED << envVars, testVars, sys_modules, local_version, readAt, version,
                    packages, record, raised, outcome, nReads, nBuilds, runs,
                    builds >>

\* line 13: sys.path.append("./src")
SysPathAppend ==
    /\ pc = "start"
    /\ sys_path' = Append(sys_path, "./src")
    /\ steps' = Append(steps, "sys.path.append")
    /\ pc' = "appended"
    /\ UNCHANGED << envVars, testVars, sys_modules, local_version, readAt, version,
                    packages, record, raised, outcome, nReads, nBuilds, runs,
                    builds >>

\* ImportPackage inside a try/except that records the failure and goes on
ImportPackageSwallow ==
    /\ pc = "appended"
    /\ steps' = Append(steps, "import")
    /\ pc' = "imported"
    /\ \/ /\ sys_modules # {}
          /\ UNCHANGED << sys_modules, outcome >>
       \/ /\ sys_modules = {}
          /\ sys_modules' = { [name |-> PackageName, version |-> diskVersion] }
          /\ outcome' \in { "none", "ImportError" }
    /\ UNCHANGED << envVars, testVars, sys_path, local_version, readAt, version,
                    packages, record, raised, nReads, nBuilds, runs, builds >>

\* line 16: import test_databricks_asset_bundles. A package already in
\* sys.modules is not loaded again; otherwise the package is loaded from the
\* source, or the import raises and the script ends there.
ImportPackage ==
    /\ pc = "appended"
    /\ steps' = Append(steps, "import")
    /\ \/ /\ sys_modules # {}
          /\ pc' = "imported"
          /\ UNCHANGED << sys_modules, outcome >>
       \/ /\ sys_modules = {}
          /\ sys_modules' = { [name |-> PackageName, version |-> diskVersion] }
          /\ pc' = "imported"
          /\ UNCHANGED outcome
       \/ /\ sys_modules = {}
          /\ pc' = "done"
          /\ outcome' = "ImportError"
          /\ UNCHANGED sys_modules
    /\ UNCHANGED << envVars, testVars, sys_path, local_version, readAt, version,
                    packages, record, raised, nReads, nBuilds, runs, builds >>

\* line 18: local_version = datetime.datetime.utcnow().strftime("%Y%m%d.%H%M%S")
UtcNow ==
    /\ pc = "imported"
    /\ readAt' = now
    /\ nReads' = nReads + 1
    /\ local_version' = strftime(utcnow(now))
    /\ steps' = Append(steps, "utcnow")
    /\ pc' = "timed"
    /\ UNCHANGED << envVars, testVars, sys_path, sys_modules, version, packages,
                    record, raised, outcome, nBuilds, runs, builds >>

\* test_databricks_asset_bundles.__version__
LoadedVersion == (CHOOSE m \in sys_modules : m.name = PackageName).version

\* line 24: version=test_databricks_asset_bundles.__version__ + "+" + local_version
EvalVersion ==
    /\ pc = "timed"
    /\ version' = FullVersion(LoadedVersion, local_version)
    /\ steps' = Append(steps, "concat")
    /\ pc' = "versioned"
    /\ UNCHANGED << envVars, testVars, sys_path, sys_modules, local_version, readAt,
                    packages, record, raised, outcome, nReads, nBuilds, runs,
                    builds >>

\* FindPackages with where left at its default, the project root
FindPackagesRoot ==
    /\ pc = "versioned"
    /\ packages' = find_packages(RootDir, markers)
    /\ steps' = Append(steps, "find_packages")
    /\ pc' = "found"
    /\ UNCHANGED << envVars, testVars, sys_path, sys_modules, local_version, readAt,
                    version, record, raised, outcome, nReads, nBuilds, runs,
                    builds >>

\* line 28: packages=find_packages(where="./src")
FindPackages ==
    /\ pc = "versioned"
    /\ packages' = find_packages(SrcDir, markers)
    /\ steps' = Append(steps, "find_packages")
    /\ pc' = "found"
    /\ UNCHANGED << envVars, testVars, sys_path, sys_modules, local_version, readAt,
                    version, record, raised, outcome, nReads, nBuilds, runs,
                    builds >>

\* SetupCall with the timestamp taken again inside the call
SetupCallNow ==
    /\ pc = "found"
    /\ record' = Append(record,
                        Metadata(FullVersion(LoadedVersion, strftime(utcnow(now))),
                                 packages))
    /\ builds' = Append(builds, [base |-> LoadedVersion, at |-> readAt,
                                 version |-> version, run |-> runs])
    /\ steps' = Append(steps, "setup")
    /\ pc' = "packaging"
    /\ UNCHANGED << envVars, testVars, sys_path, sys_modules, local_version, readAt,
                    version, packages, raised, outcome, nReads, nBuilds, runs >>

\* lines 20-41: setup(...) is called with the arguments evaluated above
SetupCall ==
    /\ pc = "found"
    /\ record' = Append(record, Metadata(version, packages))
    /\ builds' = Append(builds, [base |-> LoadedVersion, at |-> readAt,
                                 version |-> version, run |-> runs])
    /\ steps' = Append(steps, "setup")
    /\ pc' = "packaging"
    /\ UNCHANGED << envVars, testVars, sys_path, sys_modules, local_version, readAt,
                    version, packages, raised, outcome, nReads, nBuilds, runs >>

\* SetupOutcome with the call wrapped in an except that swallows the error
SetupOutcomeSwallow(r) == "succeeded"

\* what the script ends with when setup() returns (r = "ok") or raises r:
\* there is no try/except around the call
SetupOutcome(r) == IF r = "ok" THEN "succeeded" ELSE r

\* setup() returns or raises, and the script ends
SetupReturn ==
    /\ pc = "packaging"
    /\ \E r \in { "ok" } \cup SetupErrors :
          /\ raised' = (IF r = "ok" THEN "none" ELSE r)
          /\ outcome' = SetupOutcome(r)
    /\ pc' = "done"
    /\ UNCHANGED << envVars, testVars, sys_path, sys_modules, local_version, readAt,
                    version, packages, record, steps, nReads, nBuilds, runs,
                    builds >>

\* the module globals and arguments of a new run of the script
FreshRun ==
    /\ pc' = "start"
    /\ local_version' = << >>
    /\ readAt' = NoReading
    /\ version' = << >>
    /\ packages' = {}
    /\ record' = << >>
    /\ raised' = "none"
    /\ outcome' = "none"
    /\ steps' = << >>
    /\ nReads' = 0
    /\ nBuilds' = nBuilds + 1

\* the next build runs in a new interpreter
NewProcess ==
    /\ pc = "done"
    /\ nBuilds < MaxBuilds
    /\ FreshRun
    /\ sys_path' = InitialSysPath
    /\ sys_modules' = {}
    /\ runs' = 1
    /\ UNCHANGED << envVars, testVars, builds >>

\* the script is run again in the same interpreter
SameProcess ==
    /\ pc = "done"
    /\ nBuilds < MaxBuilds
    /\ FreshRun
    /\ runs' = runs + 1
    /\ UNCHANGED << envVars, testVars, sys_path, sys_modules, builds >>

Next ==
    \/ Tick
    \/ BumpVersion
    \/ SysPathAppend
    \/ ImportPackage
    \/ UtcNow
    \/ EvalVersion
    \/ FindPackages
    \/ SetupCall
    \/ SetupReturn
    \/ NewProcess
    \/ SameProcess

Spec == Init /\ [][Next]_vars

\* one run of the script
NextOnce ==
    \/ SysPathAppend
    \/ ImportPackage
    \/ UtcNow
    \/ EvalVersion
    \/ FindPackages
    \/ SetupCall
    \/ SetupReturn

SpecFmt == InitFmt /\ [][NextOnce]_vars

SpecFs == InitFs /\ [][NextOnce]_vars


(***************************************************************************)
(* tests/main_test.py under pytest.                                        *)
(***************************************************************************)
\* os.getenv(name): None when the variable is not set
EnvValues == { "<unset>", "true", "false", "True", "1" }

\* row counts of the taxis table
Counts == { 0, 5, 6, 10000 }

\* SkipCondition with "and" for "or"
SkipConditionAnd(e) == e.CI = "true" /\ e.GITHUB_ACTIONS = "true"

\* lines 7-10: the condition of pytest.mark.skipif
SkipCondition(e) == e.CI = "true" \/ e.GITHUB_ACTIONS = "true"

\* a test session about to collect tests/main_test.py; no build runs
InitTest ==
    /\ now = [day |-> 19787, sod |-> 29350, us |-> 0]
    /\ diskVersion = << Zero, Dot, Zero, Dot, Zero + 1 >>
    /\ markers = PackageDirs
    /\ BuildAt("off")
    /\ env \in [ CI : EnvValues, GITHUB_ACTIONS : EnvValues ]
    /\ tpc = "collect"
    /\ skipMain = FALSE
    /\ taxisCount = -1
    /\ results = [test_main |-> "notrun", test_placeholder |-> "notrun"]

\* Collection executes the module: line 5 imports get_taxis and get_spark,
\* lines 7-10 evaluate the skipif condition. When the import raises, the
\* module is not collected and none of its tests runs.
CollectModule ==
    /\ tpc = "collect"
    /\ \/ /\ tpc' = "collected"
          /\ skipMain' = SkipCondition(env)
       \/ /\ tpc' = "error"
          /\ UNCHANGED skipMain
    /\ UNCHANGED << envVars, buildVars, env, taxisCount, results >>

\* lines 11-14: test_main, skipped or run
test_main ==
    /\ tpc = "collected"
    /\ \/ /\ skipMain
          /\ results' = [results EXCEPT !.test_main = "skipped"]
          /\ UNCHANGED taxisCount
       \/ /\ ~skipMain
          /\ \E c \in Counts :
                /\ taxisCount' = c
                /\ results' = [results EXCEPT
                                 !.test_main = IF c > 5 THEN "passed" ELSE "failed"]
       \/ /\ ~skipMain
          \* get_spark() or get_taxis() raises
          /\ results' = [results EXCEPT !.test_main = "error"]
          /\ UNCHANGED taxisCount
    /\ tpc' = "main_done"
    /\ UNCHANGED << envVars, buildVars, env, skipMain >>

\* lines 17-20: test_placeholder
test_placeholder ==
    /\ tpc = "main_done"
    /\ results' = [results EXCEPT !.test_placeholder = "passed"]
    /\ tpc' = "finished"
    /\ UNCHANGED << envVars, buildVars, env, skipMain, taxisCount >>

NextTest ==
    \/ CollectModule
    \/ test_main
    \/ test_placeholder

SpecTest == InitTest /\ [][NextTest]_vars


(***************************************************************************)
(* Properties.                                                             *)
(***************************************************************************)
\* the record setup() received in this run
Passed == record[1]

\* "0.0.1"
V001 == << Zero, Dot, Zero, Dot, Zero + 1 >>

\* 2024-03-05 08:09:10 UTC
T20240305 == [day |-> 19787, sod |-> 29350, us |-> 0]

\* "0.0.1+20240305.080910"
V001At20240305 ==
    << Zero, Dot, Zero, Dot, Zero + 1, Plus,
       Zero + 2, Zero, Zero + 2, Zero + 4, Zero, Zero + 3, Zero, Zero + 5, Dot,
       Zero, Zero + 8, Zero, Zero + 9, Zero + 1, Zero >>

\* the number written by the digits s[i..j]
RECURSIVE Num(_, _, _)
Num(s, i, j) == IF j < i THEN 0 ELSE 10 * Num(s, i, j - 1) + (s[j] - Zero)

\* the day number of the calendar date y-m-d, counted from 1970-01-01
days_from_civil(y, m, d) ==
    LET yy  == IF m <= 2 THEN y - 1 ELSE y
        era == yy \div 400
        yoe == yy - era * 400
        mp  == IF m > 2 THEN m - 3 ELSE m + 9
        doy == (153 * mp + 2) \div 5 + d - 1
        doe == yoe * 365 + yoe \div 4 - yoe \div 100 + doy
    IN  era * 146097 + doe - 719468

\* s is 8 digits, a dot, 6 digits
IsStamp(s) ==
    /\ Len(s) = 15
    /\ \A i \in 1 .. 8 : IsDigit(s[i])
    /\ s[9] = Dot
    /\ \A i \in 10 .. 15 : IsDigit(s[i])

\* s reads as YYYYMMDD.HHMMSS of the clock reading t
StampOf(s, t) ==
    /\ IsStamp(s)
    /\ Num(s, 5, 6) \in 1 .. 12
    /\ Num(s, 7, 8) \in 1 .. 31
    /\ days_from_civil(Num(s, 1, 4), Num(s, 5, 6), Num(s, 7, 8)) = t.day
    /\ Num(s, 10, 11) \in 0 .. 23
    /\ Num(s, 12, 13) \in 0 .. 59
    /\ Num(s, 14, 15) \in 0 .. 59
    /\ Num(s, 10, 11) * 3600 + Num(s, 12, 13) * 60 + Num(s, 14, 15) = t.sod

\* v is the base version b, a "+", and the stamp of the reading t
VersionOf(v, b, t) ==
    /\ Len(v) = Len(b) + 16
    /\ SubSeq(v, 1, Len(b)) = b
    /\ v[Len(b) + 1] = Plus
    /\ StampOf(SubSeq(v, Len(b) + 2, Len(v)), t)

\* C1: the version passed to the packaging tool is the base version, a "+",
\* and the clock reading written as YYYYMMDD.HHMMSS; for base version "0.0.1"
\* and the reading 2024-03-05 08:09:10 UTC it is "0.0.1+20240305.080910".
C1_VersionFormat ==
    record # << >> =>
        /\ LoadedVersion # << >>
        /\ VersionOf(Passed.version, LoadedVersion, readAt)
        /\ (LoadedVersion = V001 /\ readAt = T20240305
               => Passed.version = V001At20240305)

C1_Witness ==
    /\ pc = "done"
    /\ outcome = "succeeded"
    /\ LoadedVersion = V001
    /\ readAt = T20240305
    /\ Passed.version = V001At20240305

\* C6: in every build the timestamp suffix is 8 digits, a dot and 6 digits,
\* 15 characters in all.
C6_SuffixPattern ==
    nReads > 0 => IsStamp(local_version) /\ Len(local_version) = 15

\* a build on 2024-01-09 at 09:00:10: month, day and hour of one digit
C6_Witness ==
    /\ pc = "timed"
    /\ readAt = [day |-> 19731, sod |-> 32410, us |-> 0]
    /\ Len(local_version) = 15
    /\ local_version[5] = Zero /\ local_version[7] = Zero /\ local_version[10] = Zero


\* the timestamp suffix of build b: what follows the base version and the "+"
Suffix(b) == SubSeq(b.version, Len(b.base) + 2, Len(b.version))

\* C2: of two builds with the same base version whose clock readings are at
\* least one second apart, the later one has a different and lexically
\* greater version string.
C2_DistinctAndOrdered ==
    \A i, j \in DOMAIN builds :
        (i < j /\ builds[i].base = builds[j].base
               /\ SecondApart(builds[i].at, builds[j].at))
            => /\ builds[i].version # builds[j].version
               /\ StrLess(builds[i].version, builds[j].version)

\* two builds on 2024-02-29, at 09:59:59 and at 10:00:00
C2_Witness ==
    /\ Len(builds) = 2
    /\ builds[1].base = builds[2].base
    /\ builds[1].at = [day |-> 19782, sod |-> 35999, us |-> 0]
    /\ builds[2].at = [day |-> 19782, sod |-> 36000, us |-> 0]
    /\ StrLess(builds[1].version, builds[2].version)

\* C7: builds whose clock readings fall in the same UTC second have the same
\* timestamp suffix and, with the same base version, the same version string,
\* whatever else differs between them.
C7_SameSecondSameVersion ==
    \A i, j \in DOMAIN builds :
        SameSecond(builds[i].at, builds[j].at)
            => /\ Suffix(builds[i]) = Suffix(builds[j])
               /\ (builds[i].base = builds[j].base
                      => builds[i].version = builds[j].version)

\* two builds within one second, at different microseconds
C7_Witness ==
    /\ Len(builds) = 2
    /\ builds[1].base = builds[2].base
    /\ SameSecond(builds[1].at, builds[2].at)
    /\ builds[1].at.us # builds[2].at.us
    /\ builds[1].version = builds[2].version

\* "./src" n times
RECURSIVE SrcEntries(_)
SrcEntries(n) == IF n = 0 THEN << >> ELSE Append(SrcEntries(n - 1), "./src")

\* C3, as stated: a run of the script in an interpreter that has run it
\* before does not raise and finds no process-wide state the earlier run
\* changed.
C3_NoProcessStateChanged ==
    (runs > 1 /\ pc = "start")
        => sys_path = InitialSysPath /\ sys_modules = {}

\* C3, amended: each run passes exactly one record, built from the clock
\* reading of that run alone, and a run that follows a successful import in
\* the same interpreter cannot fail to import; but every run leaves "./src"
\* appended to sys.path once more, and the package the first run imported
\* stays in sys.modules, so a later run in the same interpreter builds with
\* the __version__ the earlier one loaded.
C3_IndependentRecords ==
    /\ [](/\ sys_path = InitialSysPath
                    \o SrcEntries(IF pc \in { "start", "off" } THEN runs - 1 ELSE runs)
          /\ record # << >>
                => /\ Len(record) = 1
                   /\ nReads = 1
                   /\ Passed = Metadata(FullVersion(LoadedVersion,
                                                    strftime(utcnow(readAt))),
                                        find_packages(SrcDir, markers))
          /\ outcome = "ImportError" => sys_modules = {})
    /\ [][runs' = runs + 1
             => /\ sys_path' = sys_path
                /\ sys_modules' = sys_modules
                /\ record' = << >>
                /\ local_version' = << >>]_vars
    /\ [][(pc = "appended" /\ pc' # pc /\ sys_modules # {})
             => pc' = "imported" /\ sys_modules' = sys_modules]_vars

\* the second run in one interpreter succeeds with the version loaded by the
\* first, although __version__ has changed in the source since
C3_Witness ==
    /\ runs = 2
    /\ pc = "done"
    /\ outcome = "succeeded"
    /\ Len(builds) = 2
    /\ builds[1].at # builds[2].at
    /\ builds[1].version # builds[2].version
    /\ diskVersion # LoadedVersion
    /\ sys_path = << "", "./src", "./src" >>

\* C4: when the import of the package fails the build ends there, failed:
\* the clock has not been read, the packaging tool has not been called, and
\* the import has been tried once.
C4_ImportFailureAborts ==
    outcome = "ImportError"
        => /\ pc = "done"
           /\ steps = << "sys.path.append", "import" >>
           /\ nReads = 0
           /\ readAt = NoReading
           /\ local_version = << >>
           /\ record = << >>

C4_Witness ==
    /\ pc = "done"
    /\ outcome = "ImportError"
    /\ nBuilds = 2

\* C5: an error raised by the packaging call is the outcome of the build,
\* unchanged; the call is made once; a finished build has failed or succeeded.
C5_SetupErrorPropagates ==
    pc = "done"
        => /\ raised # "none" => outcome = raised /\ Len(record) = 1
           /\ outcome \in { "succeeded", "ImportError" } \cup SetupErrors
           /\ outcome = "succeeded" <=> (raised = "none" /\ record # << >>)

C5_Witness ==
    /\ pc = "done"
    /\ raised = "DistutilsError"
    /\ outcome = "DistutilsError"

\* the order of the statements of the script
Order == << "sys.path.append", "import", "utcnow", "concat", "find_packages", "setup" >>

\* C10: a run executes its statements in one fixed order, reads the clock at
\* most once, calls the packaging tool at most once and last, with the full
\* metadata record, whose version is the one computed from the reading taken
\* before the call, whatever the clock shows by then.
C10_LinearOnce ==
    /\ Len(steps) <= Len(Order)
    /\ steps = SubSeq(Order, 1, Len(steps))
    /\ nReads <= 1
    /\ Len(record) <= 1
    /\ nReads = 1 <=> Len(steps) >= 3
    /\ record # << >>
          => /\ Len(steps) = Len(Order)
             /\ pc \in { "packaging", "done" }
             /\ Passed = Metadata(version, packages)
             /\ VersionOf(Passed.version, LoadedVersion, readAt)

\* the clock moved to another second while the packaging tool ran
C10_Witness ==
    /\ pc = "done"
    /\ outcome = "succeeded"
    /\ ~SameSecond(readAt, now)
    /\ VersionOf(Passed.version, LoadedVersion, readAt)
    /\ ~VersionOf(Passed.version, LoadedVersion, now)


\* d lies below ./src, has an __init__.py and a name without a dot, and so
\* has every directory between ./src and d
Discoverable(d) ==
    /\ Len(d) > Len(SrcDir)
    /\ IsPrefix(SrcDir, d)
    /\ \A k \in (Len(SrcDir) + 1) .. Len(d) :
          SubSeq(d, 1, k) \in markers /\ d[k] \notin DottedNames

\* C8, as stated: when some directory below ./src holds the marker file, the
\* packages passed to the packaging tool are not empty, and all of them are
\* directories below ./src that hold the marker file.
C8_NonEmptyWhenMarked ==
    record # << >> =>
        /\ (\E d \in markers : Len(d) > Len(SrcDir) /\ IsPrefix(SrcDir, d))
              => Passed.packages # {}
        /\ \A p \in Passed.packages : (SrcDir \o p) \in markers

\* C8, amended: the packages passed to the packaging tool are exactly the
\* directories below ./src that hold the marker file, have no dot in their
\* name and lie below directories of that kind only; so they are not empty
\* when there is such a directory, and none of them lies outside ./src.
C8_NonEmptyWhenDiscoverable ==
    record # << >> =>
        /\ (\E d \in markers : Discoverable(d)) => Passed.packages # {}
        /\ \A p \in Passed.packages : p # << >> /\ Discoverable(SrcDir \o p)
        /\ \A d \in markers : Discoverable(d) => RelPath(d, SrcDir) \in Passed.packages

\* every directory holds the marker file: the package and its sub-package
\* are passed, tests and build.tmp are not
C8_Witness ==
    /\ pc = "done"
    /\ outcome = "succeeded"
    /\ markers = PackageDirs
    /\ Passed.packages = { << "test_databricks_asset_bundles" >>,
                           << "test_databricks_asset_bundles", "utils" >> }

\* the test session is over
SessionOver == tpc \in { "finished", "error" }

=============================================================================
